---- MODULE Spec2Model ----
(***************************************************************************)
(* Model of beszel-cli: the BeszelClient REST client (app/client.py) and   *)
(* the click commands that drive it (app/cli.py).                          *)
(*                                                                         *)
(* Python values are encoded as follows.                                   *)
(*   str            a TLA+ string ("" is the empty str)                    *)
(*   str | None     a set with at most one string: {} is None, {s} is s    *)
(*   dict           a function from its keys to its values                 *)
(*   list           a sequence                                             *)
(*   a URL          a sequence of one-character strings, so that           *)
(*                  rstrip("/") can be computed                            *)
(***************************************************************************)
EXTENDS Integers, Sequences, FiniteSets, TLC

\* ---------------------------------------------------------------- bounds

\* Number of method calls made on one client instance by a library caller.
MaxCalls == 2

\* --------------------------------------------------------------- inputs

\* Tokens a client may be constructed with (None, "", or a real token).
Tokens == {{}, {""}, {"tok1"}, {"tok2"}}

\* Base URLs, as sequences of characters.
Urls == {<<"h">>, <<"h", "/">>}

Statuses == {200, 400, 401, 500}

Emails == {"a@b.c"}

Passwords == {"pw"}

Ids == {"", "sys1"}

RecordTypes == {"1m", "10m"}

Collections == {"systems", "alerts"}

Sorts == {"", "-created"}

Filters == {"", "name~x"}

Expands == {"", "system"}

Pages == {1, 2}

PerPages == {30}

rec1 == [id |-> "s1", name |-> "box1", status |-> "up"]

user1 == [id |-> "u1", email |-> "a@b.c"]

Datas == {<<>>, [name |-> "box"]}

ErrBody == [message |-> "failed"]

\* Responses of the server: a success carries one of `bodies`, a failure an
\* error body.
Responses(bodies) ==
    {[status |-> s, body |-> b] : s \in {x \in Statuses : 200 <= x /\ x <= 299}, b \in bodies}
    \cup {[status |-> s, body |-> ErrBody] : s \in {x \in Statuses : ~(200 <= x /\ x <= 299)}}

\* auth-with-password answers a success with {token, record}; the token the
\* server issues is a non-empty string.
LoginResponses ==
    Responses({[token |-> "tok1", record |-> user1], [token |-> "tok2", record |-> user1]})

RefreshResponses == Responses({[token |-> "tok2", record |-> user1], [token |-> "tok2"]})

ListResponses ==
    Responses({[items |-> <<rec1>>, totalItems |-> 1], [items |-> <<>>, totalItems |-> 0],
               [totalItems |-> 0]})

RecordResponses == Responses({rec1})

DeleteResponses == Responses({<<>>})

\* ------------------------------------------------------- Python helpers

None == {}

Some(s) == {s}

Val(o) == CHOOSE s \in o : TRUE

\* bool(x) for x : str | None  (None and "" are falsy).
Truthy(o) == o # {} /\ Val(o) # ""

\* bool(x) for a plain str.
NonEmpty(s) == s # ""

\* a or b, for str | None operands.
Or(a, b) == IF Truthy(a) THEN a ELSE b

\* bool(x) and `a or b` for URLs (sequences of characters) | None.
TruthyUrl(o) == o # {} /\ Len(Val(o)) > 0

OrUrl(a, b) == IF TruthyUrl(a) THEN a ELSE b

EmptyDict == <<>>

\* d.get(k, default)
Get(d, k, default) == IF k \in DOMAIN d THEN d[k] ELSE default

\* d with d[k] = v set.
Put(d, k, v) == (k :> v) @@ d

\* s.rstrip("/") on a sequence of characters.
RECURSIVE rstrip(_)
rstrip(s) ==
    IF Len(s) > 0 /\ s[Len(s)] = "/" THEN rstrip(SubSeq(s, 1, Len(s) - 1)) ELSE s

\* ------------------------------------------------------------ transport

\* httpx.Response.is_success
is_success(status) == 200 <= status /\ status <= 299

\* The value a call hands to its caller: a returned value or a raised error.
Return(v) == [kind |-> "return", value |-> v]

Raise(exc, status) == [kind |-> "raise", exc |-> exc, status |-> status]

\* d[key] on a dict without that key.
RaiseKeyError(key) == [kind |-> "raise", exc |-> "KeyError", key |-> key]

\* response.raise_for_status() followed by `rest`.
raise_for_status(resp, rest) ==
    IF is_success(resp.status) THEN rest ELSE Raise("HTTPStatusError", resp.status)

\* One outbound HTTP request as handed to httpx.Client.
Request(method, base_url, path, headers, params, json) ==
    [method |-> method, base_url |-> base_url, path |-> path,
     headers |-> headers, params |-> params, json |-> json]

\* The effect of one method call on a client: the requests it sent, what the
\* caller gets, and self.token afterwards.
Call(sent, res, token) == [sent |-> sent, res |-> res, token |-> token]

\* BeszelClient.__init__ (the httpx.Client it opens is counted in `opened`).
BeszelClient(base_url, token) ==
    [base_url |-> rstrip(base_url), token |-> token, opened |-> 1, closes |-> 0]

\* _headers that sends the token under the Bearer scheme.
_headers_bearer(self) ==
    IF Truthy(self.token)
    THEN ("Content-Type" :> "application/json")
         @@ ("Authorization" :> ("Bearer " \o Val(self.token)))
    ELSE ("Content-Type" :> "application/json")

_headers(self) ==
    IF Truthy(self.token)
    THEN ("Content-Type" :> "application/json") @@ ("Authorization" :> Val(self.token))
    ELSE ("Content-Type" :> "application/json")

\* _get without response.raise_for_status().
_get_unchecked(self, path, params, resp) ==
    Call(<<Request("GET", self.base_url, path, _headers(self), params, None)>>,
         Return(resp.body),
         self.token)

_get(self, path, params, resp) ==
    Call(<<Request("GET", self.base_url, path, _headers(self), params, None)>>,
         raise_for_status(resp, Return(resp.body)),
         self.token)

\* `data or {}`: an absent or empty body is sent as {}.
_post(self, path, data, resp) ==
    Call(<<Request("POST", self.base_url, path, _headers(self), EmptyDict,
                   Some(IF data = None THEN EmptyDict ELSE Val(data)))>>,
         raise_for_status(resp, Return(resp.body)),
         self.token)

_patch(self, path, data, resp) ==
    Call(<<Request("PATCH", self.base_url, path, _headers(self), EmptyDict, Some(data))>>,
         raise_for_status(resp, Return(resp.body)),
         self.token)

_delete(self, path, resp) ==
    Call(<<Request("DELETE", self.base_url, path, _headers(self), EmptyDict, None)>>,
         raise_for_status(resp, Return(None)),
         self.token)

\* ------------------------------------------------------- authentication

\* login that returns the token without storing it.
login_not_stored(self, email, password, resp) ==
    Call(<<Request("POST", self.base_url, "/api/collections/users/auth-with-password",
                   ("Content-Type" :> "application/json"), EmptyDict,
                   Some([identity |-> email, password |-> password]))>>,
         raise_for_status(resp,
             IF "token" \in DOMAIN resp.body
             THEN Return(resp.body["token"])
             ELSE RaiseKeyError("token")),
         self.token)

\* login that drops the stored token before it checks the response.
login_clears_token(self, email, password, resp) ==
    Call(<<Request("POST", self.base_url, "/api/collections/users/auth-with-password",
                   ("Content-Type" :> "application/json"), EmptyDict,
                   Some([identity |-> email, password |-> password]))>>,
         raise_for_status(resp,
             IF "token" \in DOMAIN resp.body
             THEN Return(resp.body["token"])
             ELSE RaiseKeyError("token")),
         IF is_success(resp.status) /\ "token" \in DOMAIN resp.body
         THEN Some(resp.body["token"])
         ELSE None)

login(self, email, password, resp) ==
    Call(<<Request("POST", self.base_url, "/api/collections/users/auth-with-password",
                   ("Content-Type" :> "application/json"), EmptyDict,
                   Some([identity |-> email, password |-> password]))>>,
         raise_for_status(resp,
             IF "token" \in DOMAIN resp.body
             THEN Return(resp.body["token"])
             ELSE RaiseKeyError("token")),
         IF is_success(resp.status) /\ "token" \in DOMAIN resp.body
         THEN Some(resp.body["token"])
         ELSE self.token)

\* auth_refresh that adopts the renewed token of the response.
auth_refresh_stores_token(self, resp) ==
    LET c == _post(self, "/api/collections/users/auth-refresh", None, resp)
    IN  IF c.res.kind = "return" /\ "token" \in DOMAIN c.res.value
        THEN [c EXCEPT !.token = Some(c.res.value["token"])]
        ELSE c

auth_refresh(self, resp) ==
    _post(self, "/api/collections/users/auth-refresh", None, resp)

\* `result.get(key, default)` applied to what `call` returned; an error raised
\* by `call` propagates unchanged.
GetOfResult(call, key, default) ==
    IF call.res.kind = "return"
    THEN [call EXCEPT !.res = Return(Get(call.res.value, key, default))]
    ELSE call

\* get_current_user that returns the whole refresh response.
get_current_user_whole_result(self, resp) == auth_refresh(self, resp)

get_current_user(self, resp) ==
    GetOfResult(auth_refresh(self, resp), "record", EmptyDict)

\* --------------------------------------------- generic collection helpers

page_default == 1

records_path(collection) == "/api/collections/" \o collection \o "/records"

record_path(collection, record_id) == records_path(collection) \o "/" \o record_id

\* list_records' params with `filter` set unconditionally.
list_params_filter_always(page, per_page, sort, filter_expr, expand) ==
    LET p0 == ("page" :> page) @@ ("perPage" :> per_page)
        p1 == IF NonEmpty(sort) THEN Put(p0, "sort", sort) ELSE p0
        p2 == Put(p1, "filter", filter_expr)
        p3 == IF NonEmpty(expand) THEN Put(p2, "expand", expand) ELSE p2
    IN  p3

list_params(page, per_page, sort, filter_expr, expand) ==
    LET p0 == ("page" :> page) @@ ("perPage" :> per_page)
        p1 == IF NonEmpty(sort) THEN Put(p0, "sort", sort) ELSE p0
        p2 == IF NonEmpty(filter_expr) THEN Put(p1, "filter", filter_expr) ELSE p1
        p3 == IF NonEmpty(expand) THEN Put(p2, "expand", expand) ELSE p2
    IN  p3

list_records(self, collection, page, per_page, sort, filter_expr, expand, resp) ==
    _get(self, records_path(collection),
         list_params(page, per_page, sort, filter_expr, expand), resp)

get_record(self, collection, record_id, expand, resp) ==
    _get(self, record_path(collection, record_id),
         IF NonEmpty(expand) THEN Put(EmptyDict, "expand", expand) ELSE EmptyDict,
         resp)

create_record(self, collection, data, resp) ==
    _post(self, records_path(collection), Some(data), resp)

update_record(self, collection, record_id, data, resp) ==
    _patch(self, record_path(collection, record_id), data, resp)

delete_record(self, collection, record_id, resp) ==
    _delete(self, record_path(collection, record_id), resp)

\* ------------------------------------------------------ domain accessors

get_systems(self, filter_expr, resp) ==
    GetOfResult(
        list_records(self, "systems", page_default, 200, "", filter_expr, "", resp),
        "items", <<>>)

get_system(self, system_id, resp) == get_record(self, "systems", system_id, "", resp)

update_system(self, system_id, data, resp) ==
    update_record(self, "systems", system_id, data, resp)

delete_system(self, system_id, resp) == delete_record(self, "systems", system_id, resp)

\* The stats filter joined with || instead of &&.
system_stats_filter_or(system_id, record_type) ==
    "system=\"" \o system_id \o "\" || type=\"" \o record_type \o "\""

system_stats_filter(system_id, record_type) ==
    "system=\"" \o system_id \o "\" && type=\"" \o record_type \o "\""

system_filter(system_id) == "system=\"" \o system_id \o "\""

get_system_stats(self, system_id, record_type, per_page, resp) ==
    GetOfResult(
        list_records(self, "system_stats", page_default, per_page, "-created",
                     system_stats_filter(system_id, record_type), "", resp),
        "items", <<>>)

get_container_stats(self, system_id, per_page, resp) ==
    GetOfResult(
        list_records(self, "container_stats", page_default, per_page, "-created",
                     system_filter(system_id), "", resp),
        "items", <<>>)

get_alerts(self, system_id, resp) ==
    GetOfResult(
        list_records(self, "alerts", page_default, 200, "",
                     IF NonEmpty(system_id) THEN system_filter(system_id) ELSE "",
                     "system", resp),
        "items", <<>>)

get_alert(self, alert_id, resp) == get_record(self, "alerts", alert_id, "system", resp)

create_alert(self, data, resp) == create_record(self, "alerts", data, resp)

update_alert(self, alert_id, data, resp) ==
    update_record(self, "alerts", alert_id, data, resp)

delete_alert(self, alert_id, resp) == delete_record(self, "alerts", alert_id, resp)

get_alert_history(self, per_page, resp) ==
    GetOfResult(
        list_records(self, "alerts_history", page_default, per_page, "-created", "", "", resp),
        "items", <<>>)

\* get_containers that builds its filter also from an empty system id.
get_containers_filter_always(self, system_id, resp) ==
    GetOfResult(
        list_records(self, "containers", page_default, 200, "",
                     system_filter(system_id), "", resp),
        "items", <<>>)

get_containers(self, system_id, resp) ==
    GetOfResult(
        list_records(self, "containers", page_default, 200, "",
                     IF NonEmpty(system_id) THEN system_filter(system_id) ELSE "",
                     "", resp),
        "items", <<>>)

\* --------------------------------------------------- scoped acquisition

close(self) == [self EXCEPT !.closes = @ + 1]

__enter__(self) == self

__exit__(self) == close(self)

\* ------------------------------------------------------------------ CLI

\* What one command invocation did: clients constructed, close() calls made
\* on them, requests sent, and how the process ended.
Run(opened, closes, sent, code, cause) ==
    [opened |-> opened, closes |-> closes, sent |-> sent, code |-> code, cause |-> cause]

\* How a command body that ended with result `res` ends the process.
exit_code(res) == IF res.kind = "raise" THEN 1 ELSE 0

exit_cause(res) == IF res.kind = "raise" THEN res.exc ELSE "return"

\* get_client that rejects only a missing URL, not an empty one.
get_client_none_only(env) ==
    LET base_url == OrUrl(env.BESZEL_URL, env.config_url)
    IN  IF base_url = None
        THEN [kind |-> "exit", code |-> 1]
        ELSE [kind |-> "client",
              client |-> BeszelClient(Val(base_url), Or(env.BESZEL_TOKEN, env.config_token))]

\* env: BESZEL_URL / BESZEL_TOKEN of the environment and what
\* config.get_url() / config.get_token() return.
get_client(env) ==
    LET base_url == OrUrl(env.BESZEL_URL, env.config_url)
    IN  IF ~TruthyUrl(base_url)
        THEN [kind |-> "exit", code |-> 1]
        ELSE [kind |-> "client",
              client |-> BeszelClient(Val(base_url), Or(env.BESZEL_TOKEN, env.config_token))]

\* The `client` that `with get_client() as client` binds.
as_client(gc) == __enter__(gc.client)

\* `with get_client() as client: body`, where `body` is the effect of the
\* block on as_client(gc): get_client may exit the process before the block
\* is entered, and __exit__ runs on every way out of the block.
with_client(gc, body) ==
    IF gc.kind = "exit"
    THEN Run(0, 0, <<>>, gc.code, "SystemExit")
    ELSE LET after == __exit__([as_client(gc) EXCEPT !.token = body.token])
         IN  Run(after.opened, after.closes, body.sent,
                 exit_code(body.res), exit_cause(body.res))

\* `beszel login`: no guaranteed cleanup around client.login().
cli_login(url, email, password, resp) ==
    LET client == BeszelClient(url, None)
        c      == login(client, email, password, resp)
    IN  IF c.res.kind = "raise"
        THEN Run(client.opened, client.closes, c.sent, exit_code(c.res), exit_cause(c.res))
        ELSE LET after == close([client EXCEPT !.token = c.token])
             IN  Run(after.opened, after.closes, c.sent, 0, "return")

whoami(env, resp) ==
    LET gc == get_client(env)
    IN  with_client(gc, get_current_user(as_client(gc), resp))

systems(env, filter_expr, resp) ==
    LET gc == get_client(env)
    IN  with_client(gc, get_systems(as_client(gc), filter_expr, resp))

system_show(env, system_id, resp) ==
    LET gc == get_client(env)
    IN  with_client(gc, get_system(as_client(gc), system_id, resp))

\* The dict of the options that are truthy.
update_data(name, host, port) ==
    LET d0 == EmptyDict
        d1 == IF Truthy(name) THEN Put(d0, "name", Val(name)) ELSE d0
        d2 == IF Truthy(host) THEN Put(d1, "host", Val(host)) ELSE d1
        d3 == IF port # None /\ Val(port) # 0 THEN Put(d2, "port", Val(port)) ELSE d2
    IN  d3

system_update(env, system_id, name, host, port, resp) ==
    LET gc == get_client(env)
    IN  with_client(gc, IF update_data(name, host, port) = EmptyDict
            THEN Call(<<>>, Return(None), as_client(gc).token)
            ELSE update_system(as_client(gc), system_id, update_data(name, host, port), resp))

system_delete(env, system_id, resp) ==
    LET gc == get_client(env)
    IN  with_client(gc, delete_system(as_client(gc), system_id, resp))

stats(env, system_id, record_type, limit, resp) ==
    LET gc == get_client(env)
    IN  with_client(gc, get_system_stats(as_client(gc), system_id, record_type, limit, resp))

containers(env, system_id, resp) ==
    LET gc == get_client(env)
    IN  with_client(gc, get_containers(as_client(gc), system_id, resp))

alerts(env, system_id, resp) ==
    LET gc == get_client(env)
    IN  with_client(gc, get_alerts(as_client(gc), system_id, resp))

alert_delete(env, alert_id, resp) ==
    LET gc == get_client(env)
    IN  with_client(gc, delete_alert(as_client(gc), alert_id, resp))

alert_history(env, limit, resp) ==
    LET gc == get_client(env)
    IN  with_client(gc, get_alert_history(as_client(gc), limit, resp))

records(env, collection, filter_expr, sort_expr, limit, expand, resp) ==
    LET gc == get_client(env)
    IN  with_client(gc, GetOfResult(
                list_records(as_client(gc), collection, page_default, limit, sort_expr,
                             filter_expr, expand, resp),
                "items", <<>>))

record_show(env, collection, record_id, expand, resp) ==
    LET gc == get_client(env)
    IN  with_client(gc, get_record(as_client(gc), collection, record_id, expand, resp))

\* ---------------------------------------------------------------- state

VARIABLES
    client,   \* the library caller's client: None, or {BeszelClient instance}
    calls,    \* method calls made on it so far
    authed,   \* the token its latest successful login returned, None before one
    last,     \* the latest method call on it: arguments, response, effect
    run       \* the latest CLI command invocation and what it did

vars == <<client, calls, authed, last, run>>

Self == Val(client)

NoLast == [op |-> "none", sent |-> <<>>]

NoRun == [cmd |-> "none"]

\* Environments a command may run in.
UrlOpts == {{}, {<<>>}, {<<"h">>}}

Envs ==
    [BESZEL_URL : UrlOpts, config_url : UrlOpts,
     BESZEL_TOKEN : {{}, {"tok1"}}, config_token : {{}, {"tok2"}}]

Init ==
    /\ client = None
    /\ calls = 0
    /\ authed = None
    /\ last = NoLast
    /\ run = NoRun

\* ------------------------------------------- a library caller's session

\* No client is open: one was never constructed, or it has been closed.
NoOpenClient == IF client = None THEN TRUE ELSE Self.closes > 0

\* `with BeszelClient(base_url, token) as client:`
new_client ==
    /\ NoOpenClient
    /\ \E base_url \in Urls, token \in Tokens :
           client' = Some(__enter__(BeszelClient(base_url, token)))
    /\ calls' = 0
    /\ authed' = None
    /\ last' = NoLast
    /\ run' = NoRun

\* Leaving the `with` block, after a call returned or raised.
exit_client ==
    /\ client # None /\ Self.closes = 0
    /\ client' = Some(__exit__(Self))
    /\ UNCHANGED <<calls, authed, last>>
    /\ run' = NoRun

CanCall == client # None /\ Self.closes = 0 /\ calls < MaxCalls

\* The state after method `op` was called with `args`, the server answered
\* `resp`, and the call had effect `c`.
Called(op, args, resp, c) ==
    /\ client' = Some([Self EXCEPT !.token = c.token])
    /\ calls' = calls + 1
    /\ authed' = IF op = "login" /\ c.res.kind = "return" THEN Some(c.res.value) ELSE authed
    /\ last' = [op |-> op, args |-> args, resp |-> resp, sent |-> c.sent, res |-> c.res,
                token_before |-> Self.token, authed_before |-> authed]
    /\ run' = NoRun

call_login ==
    /\ CanCall
    /\ \E email \in Emails, password \in Passwords, resp \in LoginResponses :
           Called("login", [email |-> email, password |-> password], resp,
                  login(Self, email, password, resp))

call_auth_refresh ==
    /\ CanCall
    /\ \E resp \in RefreshResponses :
           Called("auth_refresh", <<>>, resp, auth_refresh(Self, resp))

call_get_current_user ==
    /\ CanCall
    /\ \E resp \in RefreshResponses :
           Called("get_current_user", <<>>, resp, get_current_user(Self, resp))

call_list_records ==
    /\ CanCall
    /\ \E collection \in Collections, page \in Pages, per_page \in PerPages, sort \in Sorts,
          filter_expr \in Filters, expand \in Expands, resp \in ListResponses :
           Called("list_records",
                  [collection |-> collection, page |-> page, per_page |-> per_page,
                   sort |-> sort, filter_expr |-> filter_expr, expand |-> expand],
                  resp,
                  list_records(Self, collection, page, per_page, sort, filter_expr, expand, resp))

call_get_record ==
    /\ CanCall
    /\ \E collection \in Collections, record_id \in Ids, expand \in Expands,
          resp \in RecordResponses :
           Called("get_record",
                  [collection |-> collection, record_id |-> record_id, expand |-> expand],
                  resp, get_record(Self, collection, record_id, expand, resp))

call_create_record ==
    /\ CanCall
    /\ \E collection \in Collections, data \in Datas, resp \in RecordResponses :
           Called("create_record", [collection |-> collection, data |-> data],
                  resp, create_record(Self, collection, data, resp))

call_update_record ==
    /\ CanCall
    /\ \E collection \in Collections, record_id \in Ids, data \in Datas,
          resp \in RecordResponses :
           Called("update_record",
                  [collection |-> collection, record_id |-> record_id, data |-> data],
                  resp, update_record(Self, collection, record_id, data, resp))

call_delete_record ==
    /\ CanCall
    /\ \E collection \in Collections, record_id \in Ids, resp \in DeleteResponses :
           Called("delete_record", [collection |-> collection, record_id |-> record_id],
                  resp, delete_record(Self, collection, record_id, resp))

call_get_systems ==
    /\ CanCall
    /\ \E filter_expr \in Filters, resp \in ListResponses :
           Called("get_systems", [filter_expr |-> filter_expr],
                  resp, get_systems(Self, filter_expr, resp))

call_get_system ==
    /\ CanCall
    /\ \E system_id \in Ids, resp \in RecordResponses :
           Called("get_system", [system_id |-> system_id],
                  resp, get_system(Self, system_id, resp))

call_update_system ==
    /\ CanCall
    /\ \E system_id \in Ids, data \in Datas, resp \in RecordResponses :
           Called("update_system", [system_id |-> system_id, data |-> data],
                  resp, update_system(Self, system_id, data, resp))

call_delete_system ==
    /\ CanCall
    /\ \E system_id \in Ids, resp \in DeleteResponses :
           Called("delete_system", [system_id |-> system_id],
                  resp, delete_system(Self, system_id, resp))

call_get_system_stats ==
    /\ CanCall
    /\ \E system_id \in Ids, record_type \in RecordTypes, per_page \in PerPages,
          resp \in ListResponses :
           Called("get_system_stats",
                  [system_id |-> system_id, record_type |-> record_type, per_page |-> per_page],
                  resp, get_system_stats(Self, system_id, record_type, per_page, resp))

call_get_container_stats ==
    /\ CanCall
    /\ \E system_id \in Ids, per_page \in PerPages, resp \in ListResponses :
           Called("get_container_stats", [system_id |-> system_id, per_page |-> per_page],
                  resp, get_container_stats(Self, system_id, per_page, resp))

call_get_alerts ==
    /\ CanCall
    /\ \E system_id \in Ids, resp \in ListResponses :
           Called("get_alerts", [system_id |-> system_id],
                  resp, get_alerts(Self, system_id, resp))

call_get_alert ==
    /\ CanCall
    /\ \E alert_id \in Ids, resp \in RecordResponses :
           Called("get_alert", [alert_id |-> alert_id], resp, get_alert(Self, alert_id, resp))

call_create_alert ==
    /\ CanCall
    /\ \E data \in Datas, resp \in RecordResponses :
           Called("create_alert", [data |-> data], resp, create_alert(Self, data, resp))

call_update_alert ==
    /\ CanCall
    /\ \E alert_id \in Ids, data \in Datas, resp \in RecordResponses :
           Called("update_alert", [alert_id |-> alert_id, data |-> data],
                  resp, update_alert(Self, alert_id, data, resp))

call_delete_alert ==
    /\ CanCall
    /\ \E alert_id \in Ids, resp \in DeleteResponses :
           Called("delete_alert", [alert_id |-> alert_id],
                  resp, delete_alert(Self, alert_id, resp))

call_get_alert_history ==
    /\ CanCall
    /\ \E per_page \in PerPages, resp \in ListResponses :
           Called("get_alert_history", [per_page |-> per_page],
                  resp, get_alert_history(Self, per_page, resp))

call_get_containers ==
    /\ CanCall
    /\ \E system_id \in Ids, resp \in ListResponses :
           Called("get_containers", [system_id |-> system_id],
                  resp, get_containers(Self, system_id, resp))

\* ------------------------------------------------- command invocations

\* A command invocation is a process of its own: it starts with no client
\* constructed and ends when the command returns or raises.
NotStarted == client = None /\ run = NoRun

\* One invocation of command `cmd` in environment `env` (None for `login`,
\* which reads no environment), with arguments `args`; `r` is what it did.
Ran(cmd, env, args, resp, r) ==
    /\ run' = [cmd |-> cmd, env |-> env, args |-> args, resp |-> resp,
               opened |-> r.opened, closes |-> r.closes, sent |-> r.sent,
               code |-> r.code, cause |-> r.cause]
    /\ client' = None
    /\ calls' = 0
    /\ authed' = None
    /\ last' = NoLast

cmd_login ==
    /\ NotStarted
    /\ \E url \in Urls, email \in Emails, password \in Passwords, resp \in LoginResponses :
           Ran("login", None, [url |-> url, email |-> email, password |-> password], resp,
               cli_login(url, email, password, resp))

cmd_whoami ==
    /\ NotStarted
    /\ \E env \in Envs, resp \in RefreshResponses :
           Ran("whoami", Some(env), <<>>, resp, whoami(env, resp))

cmd_systems ==
    /\ NotStarted
    /\ \E env \in Envs, filter_expr \in Filters, resp \in ListResponses :
           Ran("systems", Some(env), [filter_expr |-> filter_expr], resp,
               systems(env, filter_expr, resp))

cmd_system_show ==
    /\ NotStarted
    /\ \E env \in Envs, system_id \in Ids, resp \in RecordResponses :
           Ran("system", Some(env), [system_id |-> system_id], resp,
               system_show(env, system_id, resp))

cmd_system_update ==
    /\ NotStarted
    /\ \E env \in Envs, system_id \in Ids, name \in {{}, {"box"}}, host \in {{}, {""}},
          port \in {{}, {0}, {45876}}, resp \in RecordResponses :
           Ran("system-update", Some(env),
               [system_id |-> system_id, name |-> name, host |-> host, port |-> port], resp,
               system_update(env, system_id, name, host, port, resp))

cmd_system_delete ==
    /\ NotStarted
    /\ \E env \in Envs, system_id \in Ids, resp \in DeleteResponses :
           Ran("system-delete", Some(env), [system_id |-> system_id], resp,
               system_delete(env, system_id, resp))

cmd_stats ==
    /\ NotStarted
    /\ \E env \in Envs, system_id \in Ids, record_type \in RecordTypes, limit \in PerPages,
          resp \in ListResponses :
           Ran("stats", Some(env),
               [system_id |-> system_id, record_type |-> record_type, limit |-> limit], resp,
               stats(env, system_id, record_type, limit, resp))

cmd_containers ==
    /\ NotStarted
    /\ \E env \in Envs, system_id \in Ids, resp \in ListResponses :
           Ran("containers", Some(env), [system_id |-> system_id], resp,
               containers(env, system_id, resp))

cmd_alerts ==
    /\ NotStarted
    /\ \E env \in Envs, system_id \in Ids, resp \in ListResponses :
           Ran("alerts", Some(env), [system_id |-> system_id], resp,
               alerts(env, system_id, resp))

cmd_alert_delete ==
    /\ NotStarted
    /\ \E env \in Envs, alert_id \in Ids, resp \in DeleteResponses :
           Ran("alert-delete", Some(env), [alert_id |-> alert_id], resp,
               alert_delete(env, alert_id, resp))

cmd_alert_history ==
    /\ NotStarted
    /\ \E env \in Envs, limit \in PerPages, resp \in ListResponses :
           Ran("alert-history", Some(env), [limit |-> limit], resp,
               alert_history(env, limit, resp))

cmd_records ==
    /\ NotStarted
    /\ \E env \in Envs, collection \in Collections, filter_expr \in Filters, sort_expr \in Sorts,
          limit \in PerPages, expand \in Expands, resp \in ListResponses :
           Ran("records", Some(env),
               [collection |-> collection, filter_expr |-> filter_expr, sort_expr |-> sort_expr,
                limit |-> limit, expand |-> expand], resp,
               records(env, collection, filter_expr, sort_expr, limit, expand, resp))

cmd_record_show ==
    /\ NotStarted
    /\ \E env \in Envs, collection \in Collections, record_id \in Ids, expand \in Expands,
          resp \in RecordResponses :
           Ran("record", Some(env),
               [collection |-> collection, record_id |-> record_id, expand |-> expand], resp,
               record_show(env, collection, record_id, expand, resp))

Next ==
    \/ new_client
    \/ exit_client
    \/ call_login
    \/ call_auth_refresh
    \/ call_get_current_user
    \/ call_list_records
    \/ call_get_record
    \/ call_create_record
    \/ call_update_record
    \/ call_delete_record
    \/ call_get_systems
    \/ call_get_system
    \/ call_update_system
    \/ call_delete_system
    \/ call_get_system_stats
    \/ call_get_container_stats
    \/ call_get_alerts
    \/ call_get_alert
    \/ call_create_alert
    \/ call_update_alert
    \/ call_delete_alert
    \/ call_get_alert_history
    \/ call_get_containers
    \/ cmd_login
    \/ cmd_whoami
    \/ cmd_systems
    \/ cmd_system_show
    \/ cmd_system_update
    \/ cmd_system_delete
    \/ cmd_stats
    \/ cmd_containers
    \/ cmd_alerts
    \/ cmd_alert_delete
    \/ cmd_alert_history
    \/ cmd_records
    \/ cmd_record_show

Spec == Init /\ [][Next]_vars

\* ---------------------------------------------------------- properties

\* The requests of the latest method call, or of the latest command.
SentByCall == {last.sent[i] : i \in DOMAIN last.sent}

SentByRun == IF run.cmd = "none" THEN {} ELSE {run.sent[i] : i \in DOMAIN run.sent}

HasCalled == last.op # "none"

IsLoginRequest(req) == req.path = "/api/collections/users/auth-with-password"

\* req carries an Authorization header whose value is exactly the string t.
CarriesToken(req, t) ==
    "Authorization" \in DOMAIN req.headers /\ req.headers["Authorization"] = t

Unauthenticated(req) == "Authorization" \notin DOMAIN req.headers

LoginSucceeded ==
    HasCalled /\ last.op = "login" /\ last.res.kind = "return"

\* C1: after login succeeds the stored token is the response's `token` field
\* and is what login returned, and every request a later call sends through
\* get, post, patch or delete carries exactly that token, unprefixed, in its
\* Authorization header, until another login replaces it.
C1_RequestsAfterLoginCarryItsToken ==
    /\ LoginSucceeded =>
           /\ client = Some([Self EXCEPT !.token = Some(last.resp.body["token"])])
           /\ last.res.value = last.resp.body["token"]
    /\ (HasCalled /\ last.authed_before # None) =>
           \A req \in SentByCall :
               ~IsLoginRequest(req) => CarriesToken(req, Val(last.authed_before))

\* get_systems is called after a successful login that returned "tok2": its
\* request carries "tok2".
C1_Witness ==
    /\ HasCalled /\ last.op = "get_systems"
    /\ last.authed_before = Some("tok2")
    /\ \E req \in SentByCall : CarriesToken(req, "tok2")

LoginFailed == HasCalled /\ last.op = "login" /\ ~is_success(last.resp.status)

RaisedHttpError(res, status) ==
    res.kind = "raise" /\ res.exc = "HTTPStatusError" /\ res.status = status

\* C2 as stated: a login that gets a non-success response raises an HTTP error
\* with the response's status, and afterwards no token is set on the client,
\* whatever state the client was in.
C2_FailedLoginLeavesNoToken ==
    LoginFailed =>
        /\ RaisedHttpError(last.res, last.resp.status)
        /\ ~Truthy(Self.token)

\* C2 amended: a login that gets a non-success response raises an HTTP error
\* with the response's status and leaves the stored token as it was: a client
\* without a token still has none, and a client constructed with a token or
\* logged in before keeps that token.
C2_FailedLoginKeepsToken ==
    LoginFailed =>
        /\ RaisedHttpError(last.res, last.resp.status)
        /\ Self.token = last.token_before

\* A login failed with 401 on a client that had logged in before.
C2_Witness ==
    /\ LoginFailed /\ last.resp.status = 401
    /\ last.authed_before = Some("tok1")
    /\ Self.token = Some("tok1")

\* C3: every client constructed has its connection closed exactly once on
\* every exit path: a command closes each client it constructed exactly once
\* however it ends, and a scoped client is closed exactly once by scope exit.
C3_EveryClientClosedOnce ==
    /\ run.cmd # "none" => run.closes = run.opened
    /\ client # None => Self.closes <= 1

\* C4: a request other than login's carries the raw current token in its
\* Authorization header if a token is set and no Authorization header if
\* none is set; a login request never carries an Authorization header.
RequestAuthOk(req, token) ==
    IF IsLoginRequest(req)
    THEN Unauthenticated(req)
    ELSE IF token # None /\ Val(token) # ""
         THEN CarriesToken(req, Val(token))
         ELSE Unauthenticated(req)

\* The token of the client a command gets from get_client.
RunToken ==
    IF run.env = None THEN None
    ELSE IF Val(run.env).BESZEL_TOKEN \notin {{}, {""}} THEN Val(run.env).BESZEL_TOKEN
    ELSE Val(run.env).config_token

C4_RequestsCarryCurrentToken ==
    /\ HasCalled => \A req \in SentByCall : RequestAuthOk(req, last.token_before)
    /\ run.cmd # "none" => \A req \in SentByRun : RequestAuthOk(req, RunToken)

\* A record is deleted on a client whose token is set: the request carries it.
C4_Witness ==
    /\ HasCalled /\ last.op = "delete_record" /\ last.token_before = Some("tok1")
    /\ \E req \in SentByCall : req.method = "DELETE" /\ CarriesToken(req, "tok1")

\* C5: a list_records call sends `sort`, `filter`, `expand` exactly when the
\* argument is non-empty (then with the argument's value), and always sends
\* `page` and `perPage`.
ListParamsOk(params, page, per_page, sort, filter_expr, expand) ==
    /\ {"page", "perPage"} \subseteq DOMAIN params
    /\ params["page"] = page /\ params["perPage"] = per_page
    /\ "sort" \in DOMAIN params <=> sort # ""
    /\ "filter" \in DOMAIN params <=> filter_expr # ""
    /\ "expand" \in DOMAIN params <=> expand # ""
    /\ "sort" \in DOMAIN params => params["sort"] = sort
    /\ "filter" \in DOMAIN params => params["filter"] = filter_expr
    /\ "expand" \in DOMAIN params => params["expand"] = expand
    /\ DOMAIN params \subseteq {"page", "perPage", "sort", "filter", "expand"}

C5_OptionalParamsIffNonEmpty ==
    /\ (HasCalled /\ last.op = "list_records") =>
           /\ Len(last.sent) = 1
           /\ ListParamsOk(last.sent[1].params, last.args.page, last.args.per_page,
                           last.args.sort, last.args.filter_expr, last.args.expand)
    /\ (run.cmd = "records" /\ run.opened = 1) =>
           /\ Len(run.sent) = 1
           /\ ListParamsOk(run.sent[1].params, 1, run.args.limit, run.args.sort_expr,
                           run.args.filter_expr, run.args.expand)

\* list_records was called with a sort and an expand but an empty filter.
C5_Witness ==
    /\ HasCalled /\ last.op = "list_records"
    /\ last.args.sort = "-created" /\ last.args.filter_expr = "" /\ last.args.expand = "system"
    /\ DOMAIN last.sent[1].params = {"page", "perPage", "sort", "expand"}

ListAccessors ==
    {"get_systems", "get_system_stats", "get_container_stats", "get_alerts",
     "get_alert_history", "get_containers"}

\* The latest call is a list whose success response has no `items` field.
ListedWithoutItems ==
    /\ HasCalled /\ last.op \in ListAccessors \cup {"list_records"}
    /\ is_success(last.resp.status)
    /\ "items" \notin DOMAIN last.resp.body

\* C6: when the success response has no `items` field, the generic list
\* operation returns a result whose `items` is the empty sequence, and every
\* domain accessor built on it returns the empty sequence; none raises.
C6_MissingItemsDefaultToEmpty ==
    ListedWithoutItems =>
        /\ last.res.kind = "return"
        /\ last.op = "list_records" =>
               "items" \in DOMAIN last.res.value /\ last.res.value["items"] = <<>>
        /\ last.op \in ListAccessors => last.res.value = <<>>

\* C7: each client operation issues exactly one HTTP request, and when the
\* response status is non-success the operation raises an HTTP error carrying
\* that status instead of returning.
C7_OneRequestAndErrorsPropagate ==
    HasCalled =>
        /\ Len(last.sent) = 1
        /\ ~is_success(last.resp.status) => RaisedHttpError(last.res, last.resp.status)

\* A domain accessor got a 500 and raised it.
C7_Witness ==
    /\ HasCalled /\ last.op = "get_alerts" /\ last.resp.status = 500
    /\ Len(last.sent) = 1
    /\ RaisedHttpError(last.res, 500)

\* The one GET a list accessor sent, and its query parameters.
Sent1 == last.sent[1]

Param(name) == Sent1.params[name]

HasParam(name) == name \in DOMAIN Sent1.params

ListsCollection(collection) ==
    /\ Len(last.sent) = 1
    /\ Sent1.method = "GET"
    /\ Sent1.path = "/api/collections/" \o collection \o "/records"

\* C8: the domain accessors compose the list request per the accessor table.
C8_AccessorsComposeRequests ==
    /\ (HasCalled /\ last.op = "get_system_stats") =>
           /\ ListsCollection("system_stats")
           /\ HasParam("sort") /\ Param("sort") = "-created"
           /\ HasParam("filter")
           /\ Param("filter") = "system=\"" \o last.args.system_id \o "\" && type=\""
                                    \o last.args.record_type \o "\""
           /\ ~HasParam("expand")
    /\ (HasCalled /\ last.op = "get_container_stats") =>
           /\ ListsCollection("container_stats")
           /\ HasParam("sort") /\ Param("sort") = "-created"
           /\ HasParam("filter")
           /\ Param("filter") = "system=\"" \o last.args.system_id \o "\""
           /\ ~HasParam("expand")
    /\ (HasCalled /\ last.op = "get_alerts") =>
           /\ ListsCollection("alerts")
           /\ HasParam("expand") /\ Param("expand") = "system"
           /\ ~HasParam("sort")
           /\ IF last.args.system_id = ""
              THEN ~HasParam("filter")
              ELSE HasParam("filter")
                   /\ Param("filter") = "system=\"" \o last.args.system_id \o "\""
    /\ (HasCalled /\ last.op = "get_alert_history") =>
           /\ ListsCollection("alerts_history")
           /\ HasParam("sort") /\ Param("sort") = "-created"
           /\ ~HasParam("filter")
           /\ ~HasParam("expand")
    /\ (HasCalled /\ last.op = "get_containers") =>
           /\ ListsCollection("containers")
           /\ ~HasParam("sort")
           /\ ~HasParam("expand")
           /\ IF last.args.system_id = ""
              THEN ~HasParam("filter")
              ELSE HasParam("filter")
                   /\ Param("filter") = "system=\"" \o last.args.system_id \o "\""

\* get_system_stats("sys1", "10m") sent exactly the filter of the table.
C8_Witness ==
    /\ HasCalled /\ last.op = "get_system_stats"
    /\ last.args.system_id = "sys1" /\ last.args.record_type = "10m"
    /\ Param("filter") = "system=\"sys1\" && type=\"10m\""

IdAccessors == {"get_system_stats", "get_container_stats", "get_alerts", "get_containers"}

\* A filter that compares `system` against the empty id.
ComparesEmptySystem(req) ==
    /\ "filter" \in DOMAIN req.params
    /\ \/ req.params["filter"] = "system=\"\""
       \/ \E t \in RecordTypes : req.params["filter"] = "system=\"\" && type=\"" \o t \o "\""

\* C9 as stated: every accessor that derives its filter from a system id
\* (system stats, container stats, alerts, containers) omits the filter when
\* the id is empty, and no request compares `system` against an empty id.
C9_EmptyIdOmitsFilterEverywhere ==
    /\ (HasCalled /\ last.op \in IdAccessors /\ last.args.system_id = "") => ~HasParam("filter")
    /\ \A req \in SentByCall \cup SentByRun : ~ComparesEmptySystem(req)

\* C9 amended: the accessors whose system id is optional (alerts, containers)
\* omit the filter when the id is empty and never compare `system` against an
\* empty id; system stats and container stats, whose id is required, always
\* send their filter, built from the id as given (also from an empty one).
C9_OptionalIdOmitsFilter ==
    /\ (HasCalled /\ last.op \in {"get_alerts", "get_containers"}) =>
           /\ last.args.system_id = "" => ~HasParam("filter")
           /\ ~ComparesEmptySystem(Sent1)
    /\ (run.cmd \in {"alerts", "containers"} /\ run.opened = 1) =>
           /\ run.args.system_id = "" => "filter" \notin DOMAIN run.sent[1].params
           /\ ~ComparesEmptySystem(run.sent[1])
    /\ (HasCalled /\ last.op \in {"get_system_stats", "get_container_stats"}) =>
           HasParam("filter")

\* get_containers was called with an empty id and sent no filter.
C9_Witness ==
    /\ HasCalled /\ last.op = "get_containers" /\ last.args.system_id = ""
    /\ Len(last.sent) = 1 /\ ~HasParam("filter")

\* Neither BESZEL_URL nor the stored configuration supplies a non-empty URL.
NoUrlResolvable ==
    /\ run.cmd # "none" /\ run.env # None
    /\ Val(run.env).BESZEL_URL \in {{}, {<<>>}}
    /\ Val(run.env).config_url \in {{}, {<<>>}}

\* C10: when no base URL is resolvable, a command that gets its client from
\* get_client exits non-zero with no client constructed and no request sent.
C10_NoUrlExitsBeforeAnyRequest ==
    NoUrlResolvable =>
        /\ run.code # 0
        /\ run.opened = 0
        /\ run.sent = <<>>

\* whoami ran with BESZEL_URL set to the empty string and no stored URL.
C10_Witness ==
    /\ NoUrlResolvable /\ run.cmd = "whoami"
    /\ Val(run.env).BESZEL_URL = {<<>>} /\ Val(run.env).config_url = {}
    /\ run.code = 1 /\ run.cause = "SystemExit"

\* C11: the stored token is mutated only by login: every other operation
\* (auth_refresh and get_current_user, whose response carries a renewed
\* token, every list/get/create/update/delete, and close) leaves it as it
\* was, whether the operation returned or raised.
C11_OnlyLoginMutatesToken ==
    (HasCalled /\ last.op # "login") => Self.token = last.token_before

\* auth_refresh succeeded on a client holding "tok1"; the response carried
\* the renewed token "tok2" and the client still holds "tok1".
C11_Witness ==
    /\ HasCalled /\ last.op = "auth_refresh"
    /\ last.res.kind = "return" /\ last.res.value["token"] = "tok2"
    /\ last.token_before = Some("tok1")
    /\ Self.token = Some("tok1")

\* C12: get_current_user issues one auth-refresh POST made with the current
\* token, and returns exactly the `record` sub-object of the refresh response,
\* or an empty mapping when the response has no `record` field.
C12_CurrentUserIsRecordOfRefresh ==
    (HasCalled /\ last.op = "get_current_user") =>
        /\ Len(last.sent) = 1
        /\ Sent1.method = "POST"
        /\ Sent1.path = "/api/collections/users/auth-refresh"
        /\ RequestAuthOk(Sent1, last.token_before)
        /\ is_success(last.resp.status) =>
               /\ last.res.kind = "return"
               /\ IF "record" \in DOMAIN last.resp.body
                  THEN last.res.value = last.resp.body["record"]
                  ELSE last.res.value = [k \in {} |-> k]

\* get_current_user on a client holding "tok1" got a refresh response with a
\* record and returned that record.
C12_Witness ==
    /\ HasCalled /\ last.op = "get_current_user"
    /\ last.token_before = Some("tok1")
    /\ CarriesToken(Sent1, "tok1")
    /\ "record" \in DOMAIN last.resp.body
    /\ last.res.kind = "return" /\ last.res.value = [id |-> "u1", email |-> "a@b.c"]

====
